---- MODULE Spec2Model ----
(***************************************************************************)
(* Model of the Micro32 boot-time memory manager (memory_manager.h/.cpp):  *)
(* the static RAM bounds, the reserved region, the weak linker symbol      *)
(* __ram_end, and the three entry points set_ram_bounds,                   *)
(* reserve_all_except_first_8kb and get_reserved_region.                   *)
(*                                                                         *)
(* The target is RV32: uintptr_t and std::size_t are 32-bit unsigned and   *)
(* wrap modulo 2^32.  A 32-bit value is kept as its two 16-bit halves      *)
(* [hi, lo] (value = hi * 2^16 + lo), because the model checker's own      *)
(* integers stop at 2^31 - 1.                                              *)
(***************************************************************************)
EXTENDS Integers, FiniteSets, Sequences, TLC

\* ------------------------------------------------------------- uintptr_t

\* 2^16: one half of a 32-bit word.
Half == 65536

\* The 32-bit value of a literal 0 <= n < 2^31.
U32(n) == [hi |-> n \div Half, lo |-> n % Half]

Word == [hi : 0 .. Half - 1, lo : 0 .. Half - 1]

\* a + b on uintptr_t (wraps modulo 2^32).
Add32(a, b) ==
    LET l == a.lo + b.lo
    IN  [hi |-> (a.hi + b.hi + l \div Half) % Half, lo |-> l % Half]

\* a - b on uintptr_t (wraps modulo 2^32).
Sub32(a, b) ==
    LET l == a.lo - b.lo + Half
        borrow == IF l < Half THEN 1 ELSE 0
    IN  [hi |-> (a.hi - b.hi - borrow + Half) % Half, lo |-> l % Half]

\* a < b, a <= b, a > b on uintptr_t (unsigned).
Lt32(a, b) == a.hi < b.hi \/ (a.hi = b.hi /\ a.lo < b.lo)
Le32(a, b) == a = b \/ Lt32(a, b)
Gt32(a, b) == Lt32(b, a)

\* a % n and a & ~(n - 1) for n a power of two that divides 2^16.
Mod32(a, n) == a.lo % n
AndNot32(a, n) == [hi |-> a.hi, lo |-> a.lo - (a.lo % n)]

\* ------------------------------------------------- compile-time constants

DEFAULT_RAM_BASE == 1065353216
DEFAULT_RAM_SIZE == 33554432
RESERVED_PREFIX == 8192
ALIGN == 4

\* struct Region { uintptr_t start; uintptr_t end; } and the initializer {0, 0}.
Region(s, e) == [start |-> s, end |-> e]
ZeroRegion == Region(U32(0), U32(0))

\* ------------------------------------------------------- bounds of the model

\* Byte offsets 0 .. MaxOff are added to each anchor base and marker.
MaxOff == 3
\* Sizes RESERVED_PREFIX - 1 .. RESERVED_PREFIX + MaxExtra are configured.
MaxExtra == 4

Offsets == 0 .. MaxOff

\* The last word-aligned base whose prefix still fits below 2^32:
\* 2^32 - RESERVED_PREFIX - ALIGN.
TopAnchor == Sub32(Sub32(U32(0), U32(RESERVED_PREFIX)), U32(ALIGN))

BaseAnchors == {U32(4096), TopAnchor}

\* Arguments of set_ram_bounds.
BaseValues ==
    {U32(DEFAULT_RAM_BASE)}
        \cup {Add32(a, U32(o)) : a \in BaseAnchors, o \in Offsets}
SizeValues ==
    {U32(0), U32(RESERVED_PREFIX + 16), U32(DEFAULT_RAM_SIZE)}
        \cup {U32(RESERVED_PREFIX - 1 + d) : d \in 0 .. MaxExtra + 1}

\* The weak symbol __ram_end: not provided by the linker, or provided with
\* an address.
NoMarker == [present |-> FALSE, addr |-> U32(0)]
Marker(a) == [present |-> TRUE, addr |-> a]
MarkerValues ==
    {NoMarker, Marker(U32(0)), Marker(U32(4096)),
     Marker(U32(DEFAULT_RAM_BASE)), Marker(U32(DEFAULT_RAM_BASE + 1)),
     Marker(Sub32(U32(0), U32(1)))}
        \cup {Marker(U32(DEFAULT_RAM_BASE + RESERVED_PREFIX + o)) :
                 o \in 0 .. MaxOff + 2}

\* ------------------------------------------------------------------ state

VARIABLES
    ram_end,               \* extern char __ram_end[] __attribute__((weak))
    s_ram_base,            \* static uintptr_t s_ram_base
    s_ram_size,            \* static std::size_t s_ram_size
    s_reserved_region,     \* static Region s_reserved_region
    s_reserved,            \* static bool s_reserved
    s_explicit_bounds_set, \* static bool s_explicit_bounds_set
    succeeded,             \* history: some reserve call has returned true
    failed,                \* history: some reserve call has returned false
    last,                  \* the last call: its arguments, result and stores
    zeroed,                \* memory: the interval of words stored 0 since boot
    pc,                    \* where a reserve call in progress stands
    loc                    \* the locals of a reserve call in progress

vars ==
    <<ram_end, s_ram_base, s_ram_size, s_reserved_region, s_reserved,
      s_explicit_bounds_set, succeeded, failed, last, zeroed, pc, loc>>

statics ==
    <<s_ram_base, s_ram_size, s_reserved_region, s_reserved,
      s_explicit_bounds_set>>

OpBoot == "boot"
OpSet == "set_ram_bounds"
OpReserve == "reserve_all_except_first_8kb"
OpGet == "get_reserved_region"

\* What a call leaves for its caller: `ret` is reserve's bool, `result` is
\* get_reserved_region's Region, `wrote` is the interval of words the call
\* stored to (ZeroRegion: none).  What it found on entry: `was_reserved` is
\* s_reserved, `had_failed` tells whether a reserve call had returned false
\* before, `after_set` whether the call before it was set_ram_bounds.
Call(op, zero_memory, ret, result, wrote) ==
    [op |-> op, zero_memory |-> zero_memory, ret |-> ret, result |-> result,
     wrote |-> wrote, was_reserved |-> s_reserved, had_failed |-> failed,
     after_set |-> (op = OpReserve /\ last.op = OpSet)]

\* The locals of reserve_all_except_first_8kb while no call is in progress,
\* and on entry: the argument zero_memory, ram_base, ram_size, the zeroing
\* loop's p and p_end.  `have` names the statics read so far, `n` counts the
\* loop's stores, `irqs` the set_ram_bounds calls that interrupted the call,
\* `torn` tells whether one of them fell between the first and the last read
\* of the statics, `seen` holds the values the three statics had on entry
\* and after each of those calls.
NoLocals ==
    [zero_memory |-> FALSE, ram_base |-> U32(0), ram_size |-> U32(0),
     explicit |-> FALSE, p |-> U32(0), p_end |-> U32(0), have |-> {},
     n |-> 0, irqs |-> 0, torn |-> FALSE, seen |-> {}]

TypeOK ==
    /\ ram_end \in [present : BOOLEAN, addr : Word]
    /\ s_ram_base \in Word
    /\ s_ram_size \in Word
    /\ s_reserved_region \in [start : Word, end : Word]
    /\ s_reserved \in BOOLEAN
    /\ s_explicit_bounds_set \in BOOLEAN
    /\ succeeded \in BOOLEAN
    /\ failed \in BOOLEAN
    /\ last.op \in {OpBoot, OpSet, OpReserve, OpGet}
    /\ zeroed \in [start : Word, end : Word]
    /\ pc \in {"idle", "read", "reread_base", "reread_size", "check",
               "record", "zero", "commit"}

Init ==
    /\ ram_end \in MarkerValues
    /\ s_ram_base = U32(DEFAULT_RAM_BASE)
    /\ s_ram_size = U32(DEFAULT_RAM_SIZE)
    /\ s_reserved_region = ZeroRegion
    /\ s_reserved = FALSE
    /\ s_explicit_bounds_set = FALSE
    /\ succeeded = FALSE
    /\ failed = FALSE
    /\ last = [op |-> OpBoot, zero_memory |-> FALSE, ret |-> TRUE, result |-> ZeroRegion,
              wrote |-> ZeroRegion, was_reserved |-> FALSE, had_failed |-> FALSE,
              after_set |-> FALSE]
    /\ zeroed = ZeroRegion
    /\ pc = "idle"
    /\ loc = NoLocals

\* ------------------------------------------------------------- operations

\* compute_ram_end_from_linker(): 0 when the weak symbol is not provided or
\* its address is zero, its address otherwise.
compute_ram_end_from_linker(m) ==
    IF ~m.present THEN U32(0)
    ELSE IF m.addr = U32(0) THEN U32(0)
    ELSE m.addr

\* Variants of EffectiveBounds with one slip each: the explicit flag is not
\* consulted; the symbol is not compared with the base; the symbol is not
\* used at all.
EffectiveBounds_flag_ignored(base, size, explicit, m) ==
    LET linker_ram_end == compute_ram_end_from_linker(m)
    IN  IF linker_ram_end # U32(0) /\ Gt32(linker_ram_end, base)
        THEN [base |-> base, size |-> Sub32(linker_ram_end, base)]
        ELSE [base |-> base, size |-> size]

EffectiveBounds_no_base_compare(base, size, explicit, m) ==
    IF ~explicit
    THEN LET linker_ram_end == compute_ram_end_from_linker(m)
         IN  IF linker_ram_end # U32(0)
             THEN [base |-> base, size |-> Sub32(linker_ram_end, base)]
             ELSE [base |-> base, size |-> size]
    ELSE [base |-> base, size |-> size]

EffectiveBounds_symbol_unused(base, size, explicit, m) ==
    [base |-> base, size |-> size]

\* Variant of EffectiveBounds that keeps the configured size when the symbol
\* leaves no more than the prefix.
EffectiveBounds_small_falls_back(base, size, explicit, m) ==
    IF ~explicit
    THEN LET linker_ram_end == compute_ram_end_from_linker(m)
         IN  IF /\ linker_ram_end # U32(0)
                /\ Gt32(Sub32(linker_ram_end, base), U32(RESERVED_PREFIX + ALIGN - 1))
                /\ Gt32(linker_ram_end, base)
             THEN [base |-> base, size |-> Sub32(linker_ram_end, base)]
             ELSE [base |-> base, size |-> size]
    ELSE [base |-> base, size |-> size]

\* reserve_all_except_first_8kb, the choice of ram_base / ram_size: the
\* statics, with the size replaced by linker_ram_end - ram_base when no
\* explicit bounds were set and the symbol lies above the base.
EffectiveBounds(base, size, explicit, m) ==
    IF ~explicit
    THEN LET linker_ram_end == compute_ram_end_from_linker(m)
         IN  IF linker_ram_end # U32(0) /\ Gt32(linker_ram_end, base)
             THEN [base |-> base, size |-> Sub32(linker_ram_end, base)]
             ELSE [base |-> base, size |-> size]
    ELSE [base |-> base, size |-> size]

\* The alignment of the usable region's ends to ALIGN.
AlignedStart(usable_start) ==
    IF Mod32(usable_start, ALIGN) # 0
    THEN AndNot32(Add32(usable_start, U32(ALIGN - 1)), ALIGN)
    ELSE usable_start

\* Variant of AlignedEnd that leaves the end as computed.
AlignedEnd_unaligned(usable_end) == usable_end

AlignedEnd(usable_end) ==
    IF Mod32(usable_end, ALIGN) # 0
    THEN AndNot32(usable_end, ALIGN)
    ELSE usable_end

\* reserve_all_except_first_8kb from the sanity check to the collapse check:
\* whether the call goes on to record a region, and which.
UsableRegion(ram_base, ram_size) ==
    IF Le32(ram_size, U32(RESERVED_PREFIX))
    THEN [ok |-> FALSE, region |-> ZeroRegion]
    ELSE LET usable_start == AlignedStart(Add32(ram_base, U32(RESERVED_PREFIX)))
             usable_end == AlignedEnd(Add32(ram_base, ram_size))
         IN  IF ~Lt32(usable_start, usable_end)
             THEN [ok |-> FALSE, region |-> ZeroRegion]
             ELSE [ok |-> TRUE, region |-> Region(usable_start, usable_end)]

\* The statics a reserve call reads, as one value.
Bounds(base, size, explicit) == [base |-> base, size |-> size, explicit |-> explicit]

\* The bookkeeping of a set_ram_bounds call that interrupts a reserve call:
\* it falls between the reads when some, but not all, reads of the statics
\* are done.
Interrupted(ram_base, ram_size) ==
    [loc EXCEPT !.irqs = @ + 1,
                !.torn = @ \/ (pc \in {"read", "reread_base", "reread_size"}
                                 /\ loc.have # {}),
                !.seen = @ \cup {Bounds(ram_base, ram_size, TRUE)}]

\* Variant of set_ram_bounds that also drops the reservation, so that the
\* next reserve call derives it again.
set_ram_bounds_rederive(ram_base, ram_size) ==
    /\ s_ram_base' = ram_base
    /\ s_ram_size' = ram_size
    /\ s_explicit_bounds_set' = TRUE
    /\ s_reserved' = FALSE
    /\ s_reserved_region' = ZeroRegion
    /\ last' = Call(OpSet, FALSE, TRUE, ZeroRegion, ZeroRegion)
    /\ UNCHANGED <<zeroed, pc, loc, ram_end, succeeded, failed>>

\* void set_ram_bounds(uintptr_t ram_base, std::size_t ram_size)
set_ram_bounds(ram_base, ram_size) ==
    /\ s_ram_base' = ram_base
    /\ s_ram_size' = ram_size
    /\ s_explicit_bounds_set' = TRUE
    /\ last' = Call(OpSet, FALSE, TRUE, ZeroRegion, ZeroRegion)
    /\ loc' = IF pc = "idle" THEN loc ELSE Interrupted(ram_base, ram_size)
    /\ UNCHANGED <<zeroed, pc, ram_end, s_reserved_region, s_reserved,
                   succeeded, failed>>

\* Variant of reserve_all_except_first_8kb without the early return on
\* s_reserved.
reserve_no_early_return(zero_memory) ==
    LET b == EffectiveBounds(s_ram_base, s_ram_size,
                             s_explicit_bounds_set, ram_end)
        u == UsableRegion(b.base, b.size)
    IN  IF ~u.ok
        THEN /\ last' = Call(OpReserve, zero_memory, FALSE, ZeroRegion, ZeroRegion)
             /\ failed' = TRUE
             /\ UNCHANGED <<zeroed, pc, loc, ram_end, statics, succeeded>>
        ELSE /\ s_reserved_region' = u.region
             /\ s_reserved' = TRUE
             /\ succeeded' = TRUE
             /\ last' = Call(OpReserve, zero_memory, TRUE, ZeroRegion,
                             IF zero_memory THEN u.region ELSE ZeroRegion)
             /\ zeroed' = IF zero_memory THEN u.region ELSE zeroed
             /\ UNCHANGED <<pc, loc, ram_end, s_ram_base, s_ram_size,
                            s_explicit_bounds_set, failed>>

\* Variant of reserve_all_except_first_8kb that records the candidate region
\* before the collapse check instead of after it.
reserve_records_early(zero_memory) ==
    IF s_reserved
    THEN /\ last' = Call(OpReserve, zero_memory, TRUE, ZeroRegion, ZeroRegion)
         /\ succeeded' = TRUE
         /\ UNCHANGED <<zeroed, pc, loc, ram_end, statics, failed>>
    ELSE LET b == EffectiveBounds(s_ram_base, s_ram_size,
                                  s_explicit_bounds_set, ram_end)
             u == UsableRegion(b.base, b.size)
         IN  IF Le32(b.size, U32(RESERVED_PREFIX))
             THEN /\ last' = Call(OpReserve, zero_memory, FALSE, ZeroRegion, ZeroRegion)
                  /\ failed' = TRUE
                  /\ UNCHANGED <<zeroed, pc, loc, ram_end, statics, succeeded>>
             ELSE /\ s_reserved_region' =
                         Region(AlignedStart(Add32(b.base, U32(RESERVED_PREFIX))),
                                AlignedEnd(Add32(b.base, b.size)))
                  /\ s_reserved' = u.ok
                  /\ succeeded' = (succeeded \/ u.ok)
                  /\ failed' = (failed \/ ~u.ok)
                  /\ last' = Call(OpReserve, zero_memory, u.ok, ZeroRegion,
                                  IF zero_memory /\ u.ok THEN u.region
                                  ELSE ZeroRegion)
                  /\ zeroed' = IF zero_memory /\ u.ok THEN u.region ELSE zeroed
                  /\ UNCHANGED <<pc, loc, ram_end, s_ram_base, s_ram_size,
                                 s_explicit_bounds_set>>

\* Variant of reserve_all_except_first_8kb that works on the statics
\* themselves instead of the locals ram_base / ram_size, so that a size
\* derived from the symbol is written back.
reserve_writes_back(zero_memory) ==
    IF s_reserved
    THEN /\ last' = Call(OpReserve, zero_memory, TRUE, ZeroRegion, ZeroRegion)
         /\ succeeded' = TRUE
         /\ UNCHANGED <<zeroed, pc, loc, ram_end, statics, failed>>
    ELSE LET b == EffectiveBounds(s_ram_base, s_ram_size,
                                  s_explicit_bounds_set, ram_end)
             u == UsableRegion(b.base, b.size)
         IN  /\ s_ram_base' = b.base
             /\ s_ram_size' = b.size
             /\ s_reserved_region' = IF u.ok THEN u.region ELSE s_reserved_region
             /\ s_reserved' = u.ok
             /\ succeeded' = (succeeded \/ u.ok)
             /\ failed' = (failed \/ ~u.ok)
             /\ last' = Call(OpReserve, zero_memory, u.ok, ZeroRegion,
                             IF zero_memory /\ u.ok THEN u.region ELSE ZeroRegion)
             /\ zeroed' = IF zero_memory /\ u.ok THEN u.region ELSE zeroed
             /\ UNCHANGED <<pc, loc, ram_end, s_explicit_bounds_set>>

\* bool reserve_all_except_first_8kb(bool zero_memory)
reserve_all_except_first_8kb(zero_memory) ==
    IF s_reserved
    THEN /\ last' = Call(OpReserve, zero_memory, TRUE, ZeroRegion, ZeroRegion)
         /\ succeeded' = TRUE
         /\ UNCHANGED <<zeroed, pc, loc, ram_end, statics, failed>>
    ELSE LET b == EffectiveBounds(s_ram_base, s_ram_size,
                                  s_explicit_bounds_set, ram_end)
             u == UsableRegion(b.base, b.size)
         IN  IF ~u.ok
             THEN /\ last' = Call(OpReserve, zero_memory, FALSE, ZeroRegion, ZeroRegion)
                  /\ failed' = TRUE
                  /\ UNCHANGED <<zeroed, pc, loc, ram_end, statics, succeeded>>
             ELSE /\ s_reserved_region' = u.region
                  /\ s_reserved' = TRUE
                  /\ succeeded' = TRUE
                  /\ last' = Call(OpReserve, zero_memory, TRUE, ZeroRegion,
                                  IF zero_memory THEN u.region ELSE ZeroRegion)
                  /\ zeroed' = IF zero_memory THEN u.region ELSE zeroed
                  /\ UNCHANGED <<pc, loc, ram_end, s_ram_base, s_ram_size,
                                 s_explicit_bounds_set, failed>>

\* Region get_reserved_region()
get_reserved_region ==
    /\ last' = Call(OpGet, FALSE, TRUE, s_reserved_region, ZeroRegion)
    /\ UNCHANGED <<zeroed, pc, loc, ram_end, statics, succeeded, failed>>

Configure == \E b \in BaseValues, s \in SizeValues : set_ram_bounds(b, s)
Reserve == \E z \in BOOLEAN : reserve_all_except_first_8kb(z)
Query == get_reserved_region

Next == Configure \/ Reserve \/ Query

Spec == Init /\ [][Next]_vars

\* ------------------------------------- reserve, one statement at a time

\* The zeroing loop is followed store by store for regions of up to MaxWords
\* words; at most MaxIrq set_ram_bounds calls interrupt one reserve call.
MaxWords == 2
MaxIrq == 1

StepBases == {U32(4096), Sub32(TopAnchor, U32(ALIGN))}
StepSizes == {U32(RESERVED_PREFIX + ALIGN * k) : k \in 0 .. MaxWords}
StepMarkers ==
    {NoMarker, Marker(U32(DEFAULT_RAM_BASE + RESERVED_PREFIX + ALIGN + 1))}

SmallRegion(r) == Le32(Sub32(r.end, r.start), U32(ALIGN * MaxWords))

\* The call returns `ret`.
Return(ret) ==
    /\ pc' = "idle"
    /\ loc' = NoLocals
    /\ last' = Call(OpReserve, loc.zero_memory, ret, ZeroRegion,
                    IF loc.zero_memory /\ ret THEN zeroed ELSE ZeroRegion)
    /\ succeeded' = (succeeded \/ ret)
    /\ failed' = (failed \/ ~ret)

\* if (s_reserved) return true;
r_call ==
    /\ pc = "idle"
    /\ IF s_reserved
       THEN /\ \E z \in BOOLEAN :
                 last' = Call(OpReserve, z, TRUE, ZeroRegion, ZeroRegion)
            /\ succeeded' = TRUE
            /\ UNCHANGED <<zeroed, pc, loc, ram_end, statics, failed>>
       ELSE /\ pc' = "read"
            /\ loc' = [NoLocals EXCEPT
                          !.seen = {Bounds(s_ram_base, s_ram_size,
                                           s_explicit_bounds_set)}]
            /\ UNCHANGED <<zeroed, ram_end, statics, succeeded, failed, last>>

\* uintptr_t ram_base = s_ram_base;
r_read_base ==
    /\ pc = "read" /\ "base" \notin loc.have
    /\ loc' = [loc EXCEPT !.ram_base = s_ram_base, !.have = @ \cup {"base"}]
    /\ UNCHANGED <<zeroed, pc, ram_end, statics, succeeded, failed, last>>

\* std::size_t ram_size = s_ram_size;
r_read_size ==
    /\ pc = "read" /\ "size" \notin loc.have
    /\ loc' = [loc EXCEPT !.ram_size = s_ram_size, !.have = @ \cup {"size"}]
    /\ UNCHANGED <<zeroed, pc, ram_end, statics, succeeded, failed, last>>

\* the load of s_explicit_bounds_set for if (!s_explicit_bounds_set)
r_read_flag ==
    /\ pc = "read" /\ "flag" \notin loc.have
    /\ loc' = [loc EXCEPT !.explicit = s_explicit_bounds_set,
                          !.have = @ \cup {"flag"}]
    /\ UNCHANGED <<zeroed, pc, ram_end, statics, succeeded, failed, last>>

\* if (!s_explicit_bounds_set) { ... }: the size from the symbol, or the else
\* branch, whose two loads of the statics the build may keep or drop.
r_decide ==
    /\ pc = "read" /\ loc.have = {"base", "size", "flag"}
    /\ LET b == EffectiveBounds(loc.ram_base, loc.ram_size, loc.explicit, ram_end)
           linker_ram_end == compute_ram_end_from_linker(ram_end)
           else_branch ==
               /\ ~loc.explicit
               /\ ~(linker_ram_end # U32(0) /\ Gt32(linker_ram_end, loc.ram_base))
       IN  /\ loc' = [loc EXCEPT !.ram_base = b.base, !.ram_size = b.size]
           /\ \/ pc' = "check"
              \/ else_branch /\ pc' = "reread_base"
    /\ UNCHANGED <<zeroed, ram_end, statics, succeeded, failed, last>>

\* ram_base = s_ram_base;
r_reread_base ==
    /\ pc = "reread_base"
    /\ pc' = "reread_size"
    /\ loc' = [loc EXCEPT !.ram_base = s_ram_base]
    /\ UNCHANGED <<zeroed, ram_end, statics, succeeded, failed, last>>

\* ram_size = s_ram_size;
r_reread_size ==
    /\ pc = "reread_size"
    /\ pc' = "check"
    /\ loc' = [loc EXCEPT !.ram_size = s_ram_size]
    /\ UNCHANGED <<zeroed, ram_end, statics, succeeded, failed, last>>

\* Variant of r_check that loads the base from s_ram_base again.
r_check_reloads_base ==
    /\ pc = "check"
    /\ LET u == UsableRegion(s_ram_base, loc.ram_size)
       IN  IF ~u.ok
           THEN /\ Return(FALSE)
                /\ UNCHANGED <<zeroed, ram_end, statics>>
           ELSE /\ pc' = "record"
                /\ loc' = [loc EXCEPT !.p = u.region.start, !.p_end = u.region.end]
                /\ UNCHANGED <<zeroed, ram_end, statics, succeeded, failed, last>>

\* The sanity check, the usable region and the collapse check; on success
\* usable_start and usable_end are kept in p and p_end.
r_check ==
    /\ pc = "check"
    /\ LET u == UsableRegion(loc.ram_base, loc.ram_size)
       IN  IF ~u.ok
           THEN /\ Return(FALSE)
                /\ UNCHANGED <<zeroed, ram_end, statics>>
           ELSE /\ pc' = "record"
                /\ loc' = [loc EXCEPT !.p = u.region.start, !.p_end = u.region.end]
                /\ UNCHANGED <<zeroed, ram_end, statics, succeeded, failed, last>>

\* Variant of r_record that sets the committed flag together with the
\* descriptor.
r_record_commits ==
    /\ pc = "record"
    /\ s_reserved_region' = Region(loc.p, loc.p_end)
    /\ s_reserved' = TRUE
    /\ \E zero_memory \in BOOLEAN :
          /\ zero_memory => SmallRegion(Region(loc.p, loc.p_end))
          /\ loc' = [loc EXCEPT !.zero_memory = zero_memory]
          /\ pc' = IF zero_memory THEN "zero" ELSE "commit"
    /\ UNCHANGED <<zeroed, ram_end, s_ram_base, s_ram_size,
                   s_explicit_bounds_set, succeeded, failed, last>>

\* s_reserved_region.start = usable_start; s_reserved_region.end = usable_end;
\* if (zero_memory) { p = usable_start; p_end = usable_end; ... }
r_record ==
    /\ pc = "record"
    /\ s_reserved_region' = Region(loc.p, loc.p_end)
    /\ \E zero_memory \in BOOLEAN :
          /\ zero_memory => SmallRegion(Region(loc.p, loc.p_end))
          /\ loc' = [loc EXCEPT !.zero_memory = zero_memory]
          /\ pc' = IF zero_memory THEN "zero" ELSE "commit"
    /\ UNCHANGED <<zeroed, ram_end, s_ram_base, s_ram_size, s_reserved,
                   s_explicit_bounds_set, succeeded, failed, last>>

\* Variant of the zeroing loop whose condition is p <= p_end.
r_zero_inclusive ==
    /\ pc = "zero"
    /\ IF Le32(loc.p, loc.p_end)
       THEN /\ zeroed' = Region(IF loc.n = 0 THEN loc.p ELSE zeroed.start,
                                Add32(loc.p, U32(4)))
            /\ loc' = [loc EXCEPT !.p = Add32(@, U32(4)), !.n = @ + 1]
            /\ pc' = "zero"
       ELSE /\ pc' = "commit"
            /\ UNCHANGED <<zeroed, loc>>
    /\ UNCHANGED <<ram_end, statics, succeeded, failed, last>>

\* Variant of the zeroing loop that advances p by two words per store.
r_zero_wide ==
    /\ pc = "zero"
    /\ IF Lt32(loc.p, loc.p_end)
       THEN /\ zeroed' = Region(IF loc.n = 0 THEN loc.p ELSE zeroed.start,
                                Add32(loc.p, U32(4)))
            /\ loc' = [loc EXCEPT !.p = Add32(@, U32(8)), !.n = @ + 1]
            /\ pc' = "zero"
       ELSE /\ pc' = "commit"
            /\ UNCHANGED <<zeroed, loc>>
    /\ UNCHANGED <<ram_end, statics, succeeded, failed, last>>

\* while (p < p_end) { *p++ = 0u; }: one test of the condition and, when it
\* holds, one store.
r_zero ==
    /\ pc = "zero"
    /\ IF Lt32(loc.p, loc.p_end)
       THEN /\ zeroed' = Region(IF loc.n = 0 THEN loc.p ELSE zeroed.start,
                                Add32(loc.p, U32(4)))
            /\ loc' = [loc EXCEPT !.p = Add32(@, U32(4)), !.n = @ + 1]
            /\ pc' = "zero"
       ELSE /\ pc' = "commit"
            /\ UNCHANGED <<zeroed, loc>>
    /\ UNCHANGED <<ram_end, statics, succeeded, failed, last>>

\* s_reserved = true; return true;
r_commit ==
    /\ pc = "commit"
    /\ s_reserved' = TRUE
    /\ Return(TRUE)
    /\ UNCHANGED <<zeroed, ram_end, s_ram_base, s_ram_size, s_reserved_region,
                   s_explicit_bounds_set>>

\* A reserve call in progress runs on.
ReserveStep ==
    \/ r_read_base \/ r_read_size \/ r_read_flag \/ r_decide
    \/ r_reread_base \/ r_reread_size
    \/ r_check \/ r_record \/ r_zero \/ r_commit

\* set_ram_bounds between calls, or interrupting a reserve call.
StepConfigure ==
    \E b \in StepBases, s \in StepSizes :
        /\ pc = "idle" \/ loc.irqs < MaxIrq
        /\ set_ram_bounds(b, s)

StepQuery == pc = "idle" /\ get_reserved_region

InitStep == Init /\ ram_end \in StepMarkers

NextStep == r_call \/ ReserveStep \/ StepConfigure \/ StepQuery

SpecStep == InitStep /\ [][NextStep]_vars

\* The processor keeps executing a reserve call in progress.
SpecStepFair == SpecStep /\ WF_vars(ReserveStep)

\* ------------------------------------------------------ reference values

\* True (non-wrapped) sums: a 33-bit value [c, hi, lo] = c * 2^32 + hi * 2^16 + lo.
Wide(a) == [c |-> 0, hi |-> a.hi, lo |-> a.lo]
AddWide(a, b) ==
    LET l == a.lo + b.lo
        h == a.hi + b.hi + l \div Half
    IN  [c |-> h \div Half, hi |-> h % Half, lo |-> l % Half]
LtWide(x, y) ==
    \/ x.c < y.c
    \/ x.c = y.c /\ x.hi < y.hi
    \/ x.c = y.c /\ x.hi = y.hi /\ x.lo < y.lo
LeWide(x, y) == x = y \/ LtWide(x, y)

\* The smallest multiple of 4 that is >= n and the largest that is <= n, on
\* plain numbers below 2^31.
RoundUp4(n) == ((n + 3) \div 4) * 4
RoundDown4(n) == (n \div 4) * 4
\* The largest multiple of 4 that is <= a, on a 32-bit value.
RoundDown4Word(a) == [hi |-> a.hi, lo |-> (a.lo \div 4) * 4]

\* The last call was a reserve call that found no reservation committed.
FreshReserve == last.op = OpReserve /\ ~last.was_reserved

\* The bounds a fresh reserve call works with in the current state.
Effective == EffectiveBounds(s_ram_base, s_ram_size, s_explicit_bounds_set, ram_end)

\* ----------------------------------------------------------------- claims

\* C1: once a reserve call has returned success, every later reserve call
\* (either value of zero_memory, after any other calls) returns success,
\* leaves the committed region and the committed flag as they were and
\* stores to no memory word.
C1_CommittedIsTerminal ==
    [][(succeeded /\ last'.op = OpReserve) =>
          /\ last'.ret
          /\ last'.wrote = ZeroRegion
          /\ s_reserved_region' = s_reserved_region
          /\ s_reserved' /\ s_reserved]_vars

\* C1 witness: a reserve call with zero_memory = true was made after the
\* bounds were changed under an already committed reservation.
C1_Witness ==
    /\ last.op = OpReserve /\ last.was_reserved /\ last.zero_memory /\ last.ret
    /\ s_explicit_bounds_set
    /\ UsableRegion(s_ram_base, s_ram_size).region # s_reserved_region

\* C2: after a successful reserve, no call (set_ram_bounds and reserve with
\* any arguments included) changes the committed region, and every
\* get_reserved_region call returns it.
C2_RegionStableAfterCommit ==
    [][succeeded =>
          /\ s_reserved_region' = s_reserved_region
          /\ (last'.op = OpGet => last'.result = s_reserved_region)]_vars

\* C2 witness: get_reserved_region returned the committed region although
\* set_ram_bounds has since configured bounds that give another region.
C2_Witness ==
    /\ last.op = OpGet /\ succeeded
    /\ last.result = s_reserved_region /\ last.result # ZeroRegion
    /\ s_explicit_bounds_set
    /\ UsableRegion(s_ram_base, s_ram_size).ok
    /\ UsableRegion(s_ram_base, s_ram_size).region # s_reserved_region

MarkerFallsBack(m) ==
    \/ ~m.present
    \/ m.addr = U32(0)
    \/ ~Gt32(m.addr, U32(DEFAULT_RAM_BASE))

\* [B + prefix, B + S) after alignment, from the compile-time defaults.
DefaultRegion ==
    Region(U32(RoundUp4(DEFAULT_RAM_BASE + RESERVED_PREFIX)),
           U32(RoundDown4(DEFAULT_RAM_BASE + DEFAULT_RAM_SIZE)))

\* C4: with no explicit bounds, a symbol that is absent, at address zero or
\* not strictly above DEFAULT_RAM_BASE gives one and the same outcome:
\* success with the region of the compile-time defaults.
C4_MarkerFallback ==
    (FreshReserve /\ ~s_explicit_bounds_set /\ MarkerFallsBack(ram_end)) =>
        /\ last.ret
        /\ s_reserved_region = DefaultRegion

\* C4 witness: reserve succeeded with the default region while __ram_end was
\* provided, non-zero and equal to DEFAULT_RAM_BASE.
C4_Witness ==
    /\ FreshReserve /\ ~s_explicit_bounds_set /\ last.ret
    /\ ram_end = Marker(U32(DEFAULT_RAM_BASE))
    /\ s_reserved_region = DefaultRegion

\* C5: with no explicit bounds and a symbol strictly above DEFAULT_RAM_BASE,
\* a successful reserve commits [roundup4(B + prefix), rounddown4(symbol)).
C5_MarkerDerivesSize ==
    (FreshReserve /\ ~s_explicit_bounds_set /\ ~MarkerFallsBack(ram_end)
        /\ last.ret) =>
        s_reserved_region =
            Region(U32(RoundUp4(DEFAULT_RAM_BASE + RESERVED_PREFIX)),
                   RoundDown4Word(ram_end.addr))

\* C5 witness: reserve succeeded on a symbol that is not word-aligned and
\* the committed region is not the one of the default size.
C5_Witness ==
    /\ FreshReserve /\ ~s_explicit_bounds_set /\ ~MarkerFallsBack(ram_end)
    /\ last.ret
    /\ Mod32(ram_end.addr, 4) # 0
    /\ s_reserved_region # DefaultRegion

\* C6: in every state after a successful reserve the committed region has
\* start mod 4 = 0, end mod 4 = 0 and start < end.
C6_AlignedNonEmpty ==
    succeeded =>
        /\ s_reserved_region.start.lo % 4 = 0
        /\ s_reserved_region.end.lo % 4 = 0
        /\ Lt32(s_reserved_region.start, s_reserved_region.end)

\* C6 witness: reserve succeeded on explicit bounds of which neither the
\* start nor the end of the candidate interval was word-aligned.
C6_Witness ==
    /\ FreshReserve /\ s_explicit_bounds_set /\ last.ret
    /\ s_ram_base.lo % 4 # 0
    /\ Add32(s_ram_base, s_ram_size).lo % 4 # 0

\* The candidate interval [base + prefix, base + size) as true addresses.
TrueStart(base) == AddWide(base, U32(RESERVED_PREFIX))
TrueEnd(base, size) == AddWide(base, size)

\* C7: whenever reserve succeeds, base + prefix <= start < end <= base + size
\* holds of the committed region as true (non-wrapped) addresses, base and
\* size being the bounds the call worked with.
C7_Containment ==
    (FreshReserve /\ last.ret) =>
        /\ LeWide(TrueStart(Effective.base), Wide(s_reserved_region.start))
        /\ Lt32(s_reserved_region.start, s_reserved_region.end)
        /\ LeWide(Wide(s_reserved_region.end),
                  TrueEnd(Effective.base, Effective.size))

\* C8: on explicit bounds with a word-aligned base, reserve fails when
\* size <= prefix and succeeds with a region of exactly 4 bytes when
\* size = prefix + 4.
C8_PrefixBoundary ==
    (FreshReserve /\ s_explicit_bounds_set /\ s_ram_base.lo % 4 = 0) =>
        /\ Le32(s_ram_size, U32(RESERVED_PREFIX)) => ~last.ret
        /\ s_ram_size = U32(RESERVED_PREFIX + 4) =>
              /\ last.ret
              /\ Sub32(s_reserved_region.end, s_reserved_region.start) = U32(4)

\* C9: a reserve call that returns failure leaves the committed region, the
\* committed flag, the configured bounds and the explicit flag as they were
\* and stores to no memory word.
C9_FailureChangesNothing ==
    [][(last'.op = OpReserve /\ ~last'.ret) =>
          /\ s_reserved_region' = s_reserved_region
          /\ s_reserved' = s_reserved
          /\ s_ram_base' = s_ram_base
          /\ s_ram_size' = s_ram_size
          /\ s_explicit_bounds_set' = s_explicit_bounds_set
          /\ last'.wrote = ZeroRegion]_vars

\* C9 witness: a reserve call with zero_memory = true failed on a size above
\* the prefix (the region collapsed), after an earlier failure.
C9_Witness ==
    /\ last.op = OpReserve /\ ~last.ret /\ last.zero_memory /\ last.had_failed
    /\ Gt32(Effective.size, U32(RESERVED_PREFIX))
    /\ s_reserved_region = ZeroRegion /\ ~s_reserved

\* roundup4 and rounddown4 on true addresses.
RoundUp4Wide(x) ==
    LET l == x.lo + (3 - ((x.lo + 3) % 4))
        h == x.hi + l \div Half
    IN  [c |-> x.c + h \div Half, hi |-> h % Half, lo |-> l % Half]
RoundDown4Wide(x) == [c |-> x.c, hi |-> x.hi, lo |-> (x.lo \div 4) * 4]
Narrow(x) == [hi |-> x.hi, lo |-> x.lo]
TopOfMemory == [c |-> 1, hi |-> 0, lo |-> 0]

\* Bounds that admit a non-empty aligned region: RAM [base, base + size)
\* lies in the address space, is larger than the prefix, and
\* roundup4(base + prefix) < rounddown4(base + size).
Admits(base, size) ==
    /\ Gt32(size, U32(RESERVED_PREFIX))
    /\ LeWide(TrueEnd(base, size), TopOfMemory)
    /\ LtWide(RoundUp4Wide(TrueStart(base)), RoundDown4Wide(TrueEnd(base, size)))

\* C10: after failed reserve calls, set_ram_bounds with bounds that admit a
\* non-empty aligned region followed by reserve succeeds and commits the
\* region of those bounds.
C10_RetryAfterFailure ==
    (FreshReserve /\ last.had_failed /\ last.after_set
        /\ Admits(s_ram_base, s_ram_size)) =>
        /\ last.ret
        /\ s_reserved_region =
              Region(Narrow(RoundUp4Wide(TrueStart(s_ram_base))),
                     Narrow(RoundDown4Wide(TrueEnd(s_ram_base, s_ram_size))))
\* C12: get_reserved_region changes no static, and in every state in which
\* no reserve call has yet succeeded (whatever set_ram_bounds calls and
\* failed reserve calls came before) the stored region is, and the call
\* returns, the zero interval {0, 0}.
C12_ZeroBeforeCommit ==
    [][/\ (~succeeded /\ ~succeeded') => s_reserved_region' = ZeroRegion
       /\ last'.op = OpGet =>
             /\ s_reserved_region' = s_reserved_region
             /\ s_reserved' = s_reserved
             /\ s_ram_base' = s_ram_base
             /\ s_ram_size' = s_ram_size
             /\ s_explicit_bounds_set' = s_explicit_bounds_set
             /\ last'.wrote = ZeroRegion
             /\ (~succeeded => last'.result = ZeroRegion)]_vars

\* C12 witness: get_reserved_region returned {0, 0} after set_ram_bounds and
\* a failed reserve call.
C12_Witness ==
    /\ last.op = OpGet /\ last.result = ZeroRegion
    /\ ~succeeded /\ failed /\ s_explicit_bounds_set

\* C13: on explicit bounds on which reserve succeeds, start is the smallest
\* multiple of 4 that is >= base + prefix and end is the largest multiple of
\* 4 that is <= base + size (base = 0x1000, size = 8192 + 16 gives
\* [0x3000, 0x3010)).
C13_ReferenceRegion ==
    (FreshReserve /\ s_explicit_bounds_set /\ last.ret) =>
        /\ Wide(s_reserved_region.start) = RoundUp4Wide(TrueStart(s_ram_base))
        /\ Wide(s_reserved_region.end) =
              RoundDown4Wide(TrueEnd(s_ram_base, s_ram_size))
        /\ (s_ram_base = U32(4096) /\ s_ram_size = U32(8192 + 16)) =>
              s_reserved_region = Region(U32(12288), U32(12304))

\* C15: reserve succeeds exactly when it is called in the committed state,
\* or the size is above the prefix and
\* roundup4(base + prefix) < rounddown4(base + size).
C15_SuccessExactly ==
    last.op = OpReserve =>
        (last.ret <=>
            \/ last.was_reserved
            \/ /\ Gt32(Effective.size, U32(RESERVED_PREFIX))
               /\ LtWide(RoundUp4Wide(TrueStart(Effective.base)),
                         RoundDown4Wide(TrueEnd(Effective.base, Effective.size))))

\* C16: s_ram_base, s_ram_size and s_explicit_bounds_set are changed by
\* set_ram_bounds only: no reserve call, successful or failed, and no
\* get_reserved_region call changes them.
C16_BoundsOnlySetExplicitly ==
    [][last'.op # OpSet =>
          /\ s_ram_base' = s_ram_base
          /\ s_ram_size' = s_ram_size
          /\ s_explicit_bounds_set' = s_explicit_bounds_set]_vars

\* C16 witness: reserve succeeded on a size derived from the symbol, and the
\* stored bounds are still the compile-time defaults.
C16_Witness ==
    /\ FreshReserve /\ last.ret
    /\ ~s_explicit_bounds_set /\ ~MarkerFallsBack(ram_end)
    /\ s_ram_base = U32(DEFAULT_RAM_BASE) /\ s_ram_size = U32(DEFAULT_RAM_SIZE)
    /\ s_reserved_region # DefaultRegion

\* C18: with no explicit bounds, a symbol strictly above DEFAULT_RAM_BASE
\* that leaves no more than the prefix, or an interval that collapses under
\* alignment, makes reserve fail: there is no fallback to DEFAULT_RAM_SIZE.
C18_SmallMarkerFails ==
    (FreshReserve /\ ~s_explicit_bounds_set /\ ~MarkerFallsBack(ram_end)
        /\ Le32(RoundDown4Word(ram_end.addr),
                U32(RoundUp4(DEFAULT_RAM_BASE + RESERVED_PREFIX)))) =>
        /\ ~last.ret
        /\ s_reserved_region = ZeroRegion /\ ~s_reserved

\* C18 witness: reserve failed on a symbol 1..3 bytes above the end of the
\* prefix (the interval collapsed under alignment).
C18_Witness ==
    /\ FreshReserve /\ ~s_explicit_bounds_set /\ ~last.ret
    /\ ram_end.present
    /\ Gt32(ram_end.addr, U32(DEFAULT_RAM_BASE + RESERVED_PREFIX))
    /\ Lt32(ram_end.addr, U32(DEFAULT_RAM_BASE + RESERVED_PREFIX + 4))

\* ------------------------------------------- claims on the statement level

\* C11: a reserve call that zeroes and succeeds from the uncommitted state has
\* written zero to exactly the words of [start, end) of the committed region
\* when it returns, and at no moment has a word outside the recorded region
\* been written.
C11_ZeroedExactly ==
    /\ (last.op = OpReserve /\ last.ret /\ last.zero_memory /\ ~last.was_reserved)
          => (last.wrote = s_reserved_region /\ zeroed = s_reserved_region)
    /\ zeroed # ZeroRegion
          => /\ Le32(s_reserved_region.start, zeroed.start)
             /\ Lt32(zeroed.start, zeroed.end)
             /\ Le32(zeroed.end, s_reserved_region.end)

C11_Witness ==
    /\ last.op = OpReserve /\ last.ret /\ last.zero_memory /\ ~last.was_reserved
    /\ pc = "idle"
    /\ zeroed = s_reserved_region
    /\ Gt32(Sub32(zeroed.end, zeroed.start), U32(ALIGN))

\* C14 as stated: with zeroing requested, in no state, the states inside a
\* reserve call included, does the descriptor hold the non-zero interval while
\* a word of it is not yet zeroed.
C14_DescriptorAfterZeroing ==
    (/\ s_reserved_region # ZeroRegion
     /\ \/ loc.zero_memory
        \/ last.op = OpReserve /\ last.zero_memory /\ last.ret
             /\ ~last.was_reserved)
      => zeroed = s_reserved_region

\* C14, amended: with zeroing requested, the step that sets the committed flag
\* is taken only when every word of the recorded region has been zeroed, and
\* writes no word itself; the descriptor is stored before the zeroing pass.
C14_ZeroedBeforeCommitted ==
    [][(~s_reserved /\ s_reserved' /\ (loc.zero_memory \/ loc'.zero_memory))
         => (zeroed = s_reserved_region /\ zeroed' = zeroed
             /\ s_reserved_region' = s_reserved_region)]_vars

\* The flag has just been set by a zeroing call; inside the call the
\* descriptor was already stored while no word was zeroed (see
\* C14_DescriptorAfterZeroing).
C14_Witness ==
    /\ s_reserved /\ pc = "idle"
    /\ last.op = OpReserve /\ last.zero_memory /\ last.ret /\ ~last.was_reserved
    /\ last.wrote = s_reserved_region
    /\ s_reserved_region # ZeroRegion

\* The highest word-aligned address.
HighestWord == Sub32(U32(0), U32(ALIGN))

\* C17: every reserve call returns; when the zeroing loop is left it has done
\* exactly (end - start) / 4 stores, each at an address above the one before
\* (also for a region that ends at the highest word-aligned address), and the
\* call then sets the committed flag and returns true.
C17_ZeroingTerminates ==
    /\ []((pc = "commit" /\ loc.zero_memory)
            => Sub32(s_reserved_region.end, s_reserved_region.start)
                 = U32(ALIGN * loc.n))
    /\ [][(pc = "zero" /\ loc'.n # loc.n)
            => (loc'.n = loc.n + 1 /\ Lt32(loc.p, loc'.p))]_vars
    /\ (pc # "idle") ~> (pc = "idle")
    /\ (pc = "zero") ~> (pc = "idle" /\ s_reserved /\ last.op = OpReserve
                           /\ last.ret)

\* A zeroing call for a region ending at the highest word-aligned address has
\* returned.
C17_Witness ==
    /\ pc = "idle" /\ s_reserved
    /\ last.op = OpReserve /\ last.zero_memory /\ last.ret /\ ~last.was_reserved
    /\ s_reserved_region.end = HighestWord
    /\ zeroed = s_reserved_region

\* The region r is the one reserve derives from one of the values S of the
\* statics, taken as a whole.
ConsistentWith(r, S) ==
    \E x \in S :
        LET b == EffectiveBounds(x.base, x.size, x.explicit, ram_end)
            u == UsableRegion(b.base, b.size)
        IN  u.ok /\ u.region = r

\* C19 as stated: the region recorded by a reserve call that a set_ram_bounds
\* call interrupted is derived entirely from the statics before or entirely
\* from the statics after the interruption.
C19_NeverMixed ==
    (pc = "commit" /\ loc.irqs > 0)
      => ConsistentWith(s_reserved_region, loc.seen)

\* C19, amended: the region is derived from one value of the statics when
\* no set_ram_bounds call falls after the call's first and before its last
\* read of s_ram_base, s_ram_size and s_explicit_bounds_set.
C19_ConsistentUnlessTorn ==
    (pc = "commit" /\ loc.irqs > 0 /\ ~loc.torn)
      => ConsistentWith(s_reserved_region, loc.seen)

\* An interrupted call records the region of the newly configured bounds.
C19_Witness ==
    /\ pc = "commit" /\ loc.irqs > 0 /\ ~loc.torn
    /\ s_explicit_bounds_set /\ loc.explicit
    /\ s_reserved_region = UsableRegion(s_ram_base, s_ram_size).region
====
